---- MODULE Spec2Model ----
(***************************************************************************)
(* FlashCrawler: breadth-first web crawler with parameter-signature        *)
(* deduplication (FlashCrawler.py).  The model covers the module-level     *)
(* state (visited, queue, found, allowed_domains, seen_param_signatures),  *)
(* load_urls, is_valid, normalize_param_signature, extract, the crawl loop *)
(* and the final report.                                                   *)
(***************************************************************************)
EXTENDS Integers, Sequences, FiniteSets, TLC

\* ------------------------------------------------------------------ bounds
\* largest value of -d/--depth that is explored (MAX_PAGES \in 0..MaxBudget)
MaxBudget == 2
\* largest number of distinct <a href> values on one fetched page
MaxLinks == 2
\* largest number of name=value pairs in a query string handed to
\* normalize_param_signature on its own, and of repeated calls on it
MaxParams == 2
MaxCalls == 2

\* ------------------------------------------------------------------ URLs
\* A URL is what urlparse() splits it into; query is the sequence of
\* <<name, value>> pairs of the query string.
mkURL(s, n, p, q) == [scheme |-> s, netloc |-> n, path |-> p, query |-> q]

RootA  == mkURL("http", "a", "/", <<>>)                          \* http://a/
PId1   == mkURL("http", "a", "/p", << <<"id", "1">> >>)          \* http://a/p?id=1
PId2   == mkURL("http", "a", "/p", << <<"id", "2">> >>)          \* http://a/p?id=2
BPId2  == mkURL("http", "b", "/p", << <<"id", "2">> >>)          \* http://b/p?id=2
FtpA   == mkURL("ftp", "a", "/f", <<>>)                          \* ftp://a/f
NoSchemeX == mkURL("", "", "a/x", <<>>)                          \* a/x
RootC  == mkURL("http", "c", "/", <<>>)                          \* http://c/
PIdBlank == mkURL("http", "a", "/p", << <<"id", "">> >>)         \* http://a/p?id=

\* lexicographic rank of the parameter names in use
KeyRank == [id |-> 1, x |-> 2]

\* values of -u/--url and of the stripped non-blank lines of the -l file
UrlArgs == {RootA, FtpA, NoSchemeX}
ListLines == {PId1, BPId2}

NoArg == [kind |-> "none"]
MissingFile == [kind |-> "missing"]

\* an <a href=...> value: an absolute URL, a path-absolute reference that
\* urljoin resolves against the page's base (here /p?id=, a parameter with a
\* blank value), or text urljoin rejects
AbsHref(u) == [kind |-> "abs", url |-> u]
RelHref(p, q) == [kind |-> "rel", path |-> p, query |-> q]
BadHref == [kind |-> "bad"]
Hrefs == {AbsHref(PId1), AbsHref(PId2), AbsHref(BPId2), AbsHref(FtpA),
          RelHref("/p", << <<"id", "">> >>), BadHref}

\* all sequences over S of length at most n
RECURSIVE SeqsUpTo(_, _)
SeqsUpTo(S, n) ==
    IF n = 0 THEN {<<>>}
    ELSE LET shorter == SeqsUpTo(S, n - 1)
         IN shorter \cup {Append(s, e) : s \in {t \in shorter : Len(t) = n - 1}, e \in S}

Range(s) == {s[i] : i \in 1..Len(s)}

NoDup(q) == \A i, j \in 1..Len(q) : q[i] = q[j] => i = j

\* the orders in which a Python set may be iterated
Orders(S) == {s \in [1..Cardinality(S) -> S] : Range(s) = S}


VARIABLES
    args_url, args_list, MAX_PAGES, DEDUP_PARAM_SIG,
    visited, queue, found, allowed_domains, seen_param_signatures,
    pc, links, outcome, discarded, reported,
    visitOrder, enqOrder, extracted, delays,
    sig_in, sig_out

vars == <<args_url, args_list, MAX_PAGES, DEDUP_PARAM_SIG,
          visited, queue, found, allowed_domains, seen_param_signatures,
          pc, links, outcome, discarded, reported, visitOrder, enqOrder,
          extracted, delays, sig_in, sig_out>>

config == <<args_url, args_list, MAX_PAGES, DEDUP_PARAM_SIG>>

\* the URLs handed to normalize_param_signature on its own, and its results
sigvars == <<sig_in, sig_out>>

\* the resolved links the last extract dropped: by is_valid, by the signature;
\* resolved holds every abs_url the last extract computed
NoneDiscarded == [scope |-> {}, sig |-> {}, resolved |-> {}]

Init ==
    /\ args_url \in {NoArg} \cup {[kind |-> "url", url |-> u] : u \in UrlArgs}
    /\ args_list \in {NoArg, MissingFile}
                     \cup {[kind |-> "file", lines |-> L] : L \in SUBSET ListLines}
    /\ MAX_PAGES \in 0..MaxBudget
    /\ DEDUP_PARAM_SIG \in BOOLEAN
    /\ visited = {}
    /\ queue = <<>>
    /\ found = {}
    /\ allowed_domains = {}
    /\ seen_param_signatures = {}
    /\ pc = "load_urls"
    /\ links = {}
    /\ outcome = "none"
    /\ discarded = NoneDiscarded
    /\ reported = <<>>
    /\ visitOrder = <<>>
    /\ enqOrder = <<>>
    /\ extracted = {}
    /\ delays = 0
    /\ sig_in = <<>>
    /\ sig_out = <<>>

\* ------------------------------------------------------------------ load_urls
Seeds ==
    (IF args_url.kind = "url" THEN {args_url.url} ELSE {})
    \cup (IF args_list.kind = "file" THEN args_list.lines ELSE {})

LoadUrls ==
    /\ pc = "load_urls"
    /\ IF args_list.kind = "missing" \/ Seeds = {}
       THEN /\ pc' = "exit1"
            /\ UNCHANGED <<allowed_domains, queue, enqOrder>>
       ELSE /\ allowed_domains' = {u.netloc : u \in Seeds}
            /\ \E order \in Orders(Seeds) :
                  /\ queue' = queue \o order
                  /\ enqOrder' = enqOrder \o order
            /\ pc' = "loop"
    /\ UNCHANGED <<config, sigvars, visited, found, seen_param_signatures, links,
                   outcome, discarded, reported, visitOrder, extracted, delays>>

\* ------------------------------------------------------------------ helpers
is_valid_any_host(url) == url.scheme \in {"http", "https"}

is_valid_any_scheme(url) == url.netloc \in allowed_domains

\* lines 98-100
is_valid(url) ==
    url.scheme \in {"http", "https"} /\ url.netloc \in allowed_domains

\* parse_qs(parsed.query).keys(): the names that carry a non-blank value
\* (parse_qs drops blank values, keep_blank_values is off)
QueryKeys(url) ==
    {url.query[i][1] : i \in {j \in 1..Len(url.query) : url.query[j][2] # ""}}

\* sorted(): the names in lexicographic order
RECURSIVE SortedKeys(_)
SortedKeys(K) ==
    IF K = {} THEN <<>>
    ELSE LET least == CHOOSE k \in K : \A o \in K : KeyRank[k] <= KeyRank[o]
         IN <<least>> \o SortedKeys(K \ {least})

\* '&'.join(keys), as the sequence of the pieces of the string
RECURSIVE JoinAmp(_)
JoinAmp(keys) ==
    IF Len(keys) = 0 THEN <<>>
    ELSE IF Len(keys) = 1 THEN <<keys[1]>>
    ELSE <<keys[1], "&">> \o JoinAmp(Tail(keys))

\* the signature string, as the sequence of its pieces
normalize_param_signature(url) ==
    LET keys == SortedKeys(QueryKeys(url))
    IN IF keys # <<>>
       THEN <<url.path, "?params=">> \o JoinAmp(keys)
       ELSE <<url.path>>

\* urljoin(base, href) for the hrefs it accepts
urljoin(base, href) ==
    IF href.kind = "abs" THEN href.url
    ELSE mkURL(base.scheme, base.netloc, href.path, href.query)

RECURSIVE ScanTags_always_dedup(_, _, _, _)
ScanTags_always_dedup(tags, base, seen, acc) ==
    IF tags = <<>> THEN [links |-> acc.links, seen |-> seen, raised |-> FALSE, dropped |-> acc.dropped]
    ELSE IF Head(tags).kind = "bad"
    THEN [links |-> acc.links, seen |-> seen, raised |-> TRUE, dropped |-> acc.dropped]
    ELSE LET abs_url == urljoin(base, Head(tags))
             sig == normalize_param_signature(abs_url)
             res == [acc EXCEPT !.dropped.resolved = @ \cup {abs_url}]
         IN IF ~is_valid(abs_url)
            THEN ScanTags_always_dedup(Tail(tags), base, seen,
                                       [res EXCEPT !.dropped.scope = @ \cup {abs_url}])
            ELSE IF sig \in seen
            THEN ScanTags_always_dedup(Tail(tags), base, seen,
                                       [res EXCEPT !.dropped.sig = @ \cup {abs_url}])
            ELSE ScanTags_always_dedup(Tail(tags), base, seen \cup {sig},
                                       [res EXCEPT !.links = @ \cup {abs_url}])

RECURSIVE ScanTags_no_record(_, _, _, _)
ScanTags_no_record(tags, base, seen, acc) ==
    IF tags = <<>> THEN [links |-> acc.links, seen |-> seen, raised |-> FALSE, dropped |-> acc.dropped]
    ELSE IF Head(tags).kind = "bad"
    THEN [links |-> acc.links, seen |-> seen, raised |-> TRUE, dropped |-> acc.dropped]
    ELSE LET abs_url == urljoin(base, Head(tags))
             sig == normalize_param_signature(abs_url)
             res == [acc EXCEPT !.dropped.resolved = @ \cup {abs_url}]
         IN IF ~is_valid(abs_url)
            THEN ScanTags_no_record(Tail(tags), base, seen,
                                    [res EXCEPT !.dropped.scope = @ \cup {abs_url}])
            ELSE IF DEDUP_PARAM_SIG /\ sig \in seen
            THEN ScanTags_no_record(Tail(tags), base, seen,
                                    [res EXCEPT !.dropped.sig = @ \cup {abs_url}])
            ELSE ScanTags_no_record(Tail(tags), base, seen,
                                    [res EXCEPT !.links = @ \cup {abs_url}])

\* the for-loop of extract over the <a href> tags, in document order; raised
\* is set when urljoin raises ValueError, which leaves extract at that tag
RECURSIVE ScanTags(_, _, _, _)
ScanTags(tags, base, seen, acc) ==
    IF tags = <<>> THEN [links |-> acc.links, seen |-> seen, raised |-> FALSE, dropped |-> acc.dropped]
    ELSE IF Head(tags).kind = "bad"
    THEN [links |-> acc.links, seen |-> seen, raised |-> TRUE, dropped |-> acc.dropped]
    ELSE LET abs_url == urljoin(base, Head(tags))
             sig == normalize_param_signature(abs_url)
             res == [acc EXCEPT !.dropped.resolved = @ \cup {abs_url}]
         IN IF ~is_valid(abs_url)
            THEN ScanTags(Tail(tags), base, seen,
                          [res EXCEPT !.dropped.scope = @ \cup {abs_url}])
            ELSE IF DEDUP_PARAM_SIG
            THEN IF sig \in seen
                 THEN ScanTags(Tail(tags), base, seen,
                               [res EXCEPT !.dropped.sig = @ \cup {abs_url}])
                 ELSE ScanTags(Tail(tags), base, seen \cup {sig},
                               [res EXCEPT !.links = @ \cup {abs_url}])
            ELSE ScanTags(Tail(tags), base, seen,
                          [res EXCEPT !.links = @ \cup {abs_url}])

\* r.url for a body with the given tags: the requested URL, or the URL a
\* redirect led to.  Only urljoin of a relative href reads it, so a redirect
\* is told apart only for a body that has one.
EffectiveBases(url, tags) ==
    IF \E i \in 1..Len(tags) : tags[i].kind = "rel" THEN {url, RootC} ELSE {url}

\* the distinct <a href> values of a page body, in the document order of
\* their first occurrence (a repeated href is resolved to the same abs_url
\* and changes neither links nor seen_param_signatures)
Bodies == {t \in SeqsUpTo(Hrefs, MaxLinks) : NoDup(t)}

\* the same for the body of an error page
ErrorBodies == SeqsUpTo(Hrefs, 1)

\* what requests.get can return for url: resp.outcome is "ok", or the except
\* branch taken; resp.base is r.url; resp.tags are the <a href> values of the
\* body.  requests refuses a URL without an http(s) scheme with a
\* RequestException; a non-2xx response has a body too (here of one link at
\* most), which raise_for_status keeps from being parsed.
Responses(url) ==
    IF url.scheme \in {"http", "https"}
    THEN UNION {[outcome : {"ok"}, base : EffectiveBases(url, t), tags : {t}] :
                   t \in Bodies}
         \cup [outcome : {"request_failed"}, base : {url}, tags : ErrorBodies]
         \cup [outcome : {"timeout", "parse_error"}, base : {url}, tags : {<<>>}]
    ELSE [outcome : {"request_failed"}, base : {url}, tags : {<<>>}]

\* extract(url), lines 109-137, on the response resp
extract_keeps_going(resp, seen) ==
    ScanTags(resp.tags, resp.base, seen, [links |-> {}, dropped |-> NoneDiscarded])

extract(resp, seen) ==
    IF resp.outcome # "ok"
    THEN [links |-> {}, seen |-> seen, raised |-> FALSE, dropped |-> NoneDiscarded]
    ELSE ScanTags(resp.tags, resp.base, seen, [links |-> {}, dropped |-> NoneDiscarded])

\* ------------------------------------------------------------------ crawl
LoopCond_off_by_one == queue # <<>> /\ Cardinality(visited) <= MAX_PAGES

\* line 154
LoopCond == queue # <<>> /\ Cardinality(visited) < MAX_PAGES

popleft_from_right(q) == [url |-> q[Len(q)], rest |-> SubSeq(q, 1, Len(q) - 1)]

\* line 155
popleft(q) == [url |-> Head(q), rest |-> Tail(q)]

after_extract_delay_if_links(ls) == IF ls = {} THEN "push" ELSE "sleep"

\* lines 161-162: whatever extract returned, time.sleep(DELAY) comes next
after_extract(ls) == "sleep"

\* lines 155-161: pop, visited check, mark visited, extract
Visit ==
    /\ pc = "loop"
    /\ LoopCond
    /\ LET url == popleft(queue).url IN
       /\ queue' = popleft(queue).rest
       /\ IF url \in visited
          THEN UNCHANGED <<visited, visitOrder, seen_param_signatures, links,
                           outcome, discarded, extracted, pc>>
          ELSE /\ visited' = visited \cup {url}
               /\ visitOrder' = Append(visitOrder, url)
               /\ \E resp \in Responses(url) :
                     LET r == extract(resp, seen_param_signatures) IN
                     /\ seen_param_signatures' = r.seen
                     /\ discarded' = r.dropped
                     /\ IF r.raised
                        THEN /\ outcome' = "value_error"
                             /\ pc' = "crashed"
                             /\ UNCHANGED <<links, extracted>>
                        ELSE /\ outcome' = resp.outcome
                             /\ links' = r.links
                             /\ extracted' = extracted \cup r.links
                             /\ pc' = after_extract(r.links)
    /\ UNCHANGED <<config, sigvars, found, allowed_domains, reported, enqOrder,
                   delays>>

\* line 162: time.sleep(DELAY)
Sleep ==
    /\ pc = "sleep"
    /\ delays' = delays + 1
    /\ pc' = "push"
    /\ UNCHANGED <<config, sigvars, visited, queue, found, allowed_domains,
                   seen_param_signatures, links, outcome, discarded, reported,
                   visitOrder, enqOrder, extracted>>

RECURSIVE PushLinks_unchecked(_, _, _)
PushLinks_unchecked(order, q, v) ==
    IF order = <<>> THEN q
    ELSE PushLinks_unchecked(Tail(order), Append(q, Head(order)), v)

RECURSIVE PushLinks_queue_only(_, _, _)
PushLinks_queue_only(order, q, v) ==
    IF order = <<>> THEN q
    ELSE PushLinks_queue_only(Tail(order),
                              IF Head(order) \notin Range(q) THEN Append(q, Head(order)) ELSE q,
                              v)

\* lines 163-165: append each link that is neither visited nor queued
RECURSIVE PushLinks(_, _, _)
PushLinks(order, q, v) ==
    IF order = <<>> THEN q
    ELSE LET link == Head(order)
         IN PushLinks(Tail(order),
                      IF link \notin v /\ link \notin Range(q) THEN Append(q, link) ELSE q,
                      v)

\* line 166
found_update_pushed_only(f, ls, q, v) ==
    f \cup {l \in ls : l \notin v /\ l \notin Range(q)}

found_update(f, ls, q, v) == f \cup ls

\* lines 163-166; links, the logged outcome and the dropped links are dead
\* after the iteration and are cleared
Push ==
    /\ pc = "push"
    /\ \E order \in Orders(links) :
          /\ queue' = PushLinks(order, queue, visited)
          /\ enqOrder' = enqOrder \o SubSeq(queue', Len(queue) + 1, Len(queue'))
    /\ found' = found_update(found, links, queue, visited)
    /\ links' = {}
    /\ outcome' = "none"
    /\ discarded' = NoneDiscarded
    /\ pc' = "loop"
    /\ UNCHANGED <<config, sigvars, visited, allowed_domains, seen_param_signatures,
                   reported, visitOrder, extracted, delays>>

\* lines 154, 168-172: the loop ends, show_table (and save_results) report
\* visited.union(found)
Finish ==
    /\ pc = "loop"
    /\ ~LoopCond
    /\ reported' = <<visited \cup found>>
    /\ pc' = "done"
    /\ UNCHANGED <<config, sigvars, visited, queue, found, allowed_domains,
                   seen_param_signatures, links, outcome, discarded, visitOrder,
                   enqOrder, extracted, delays>>

\* Ctrl-C between two iterations (at the loop test): KeyboardInterrupt is
\* caught nowhere, so it leaves crawl() and ends the process before
\* show_table.  An interrupt that arrives inside an iteration ends the
\* process the same way.
Interrupt ==
    /\ pc = "loop"
    /\ pc' = "interrupted"
    /\ UNCHANGED <<config, sigvars, visited, queue, found, allowed_domains,
                   seen_param_signatures, links, outcome, discarded, reported,
                   visitOrder, enqOrder, extracted, delays>>

Next == LoadUrls \/ Visit \/ Sleep \/ Push \/ Finish \/ Interrupt

Spec == Init /\ [][Next]_vars

\* the interpreter runs the program's next step whenever there is one
FairSpec ==
    /\ Spec
    /\ WF_vars(LoadUrls) /\ WF_vars(Visit) /\ WF_vars(Sleep)
    /\ WF_vars(Push) /\ WF_vars(Finish)

\* ------------------------------------------------- the signature on its own
\* URLs over two paths whose query strings have up to MaxParams pairs, with
\* the names id and x, in either order, repeated or not, with a value or blank
SigUrls ==
    {mkURL("http", "a", p, q) :
        p \in {"/p", "/q"},
        q \in SeqsUpTo({<<n, v>> : n \in {"id", "x"}, v \in {"1", ""}}, MaxParams)}

\* two URLs are picked; the crawl itself does not run
SigInit ==
    /\ args_url = NoArg /\ args_list = NoArg
    /\ MAX_PAGES = 0 /\ DEDUP_PARAM_SIG = TRUE
    /\ visited = {} /\ queue = <<>> /\ found = {}
    /\ allowed_domains = {} /\ seen_param_signatures = {}
    /\ pc = "signature" /\ links = {} /\ outcome = "none"
    /\ discarded = NoneDiscarded /\ reported = <<>>
    /\ visitOrder = <<>> /\ enqOrder = <<>> /\ extracted = {} /\ delays = 0
    /\ sig_in \in SigUrls \X SigUrls
    /\ sig_out = <<>>

\* one more call of normalize_param_signature on each of the two URLs
CallSignature ==
    /\ pc = "signature"
    /\ Len(sig_out) < MaxCalls
    /\ sig_out' = Append(sig_out, <<normalize_param_signature(sig_in[1]),
                                    normalize_param_signature(sig_in[2])>>)
    /\ UNCHANGED <<config, sig_in, visited, queue, found, allowed_domains,
                   seen_param_signatures, pc, links, outcome, discarded,
                   reported, visitOrder, enqOrder, extracted, delays>>

SigNext == CallSignature

SigSpec == SigInit /\ [][SigNext]_vars

TypeOK ==
    /\ pc \in {"load_urls", "exit1", "loop", "sleep", "push", "done", "crashed",
               "interrupted", "signature"}
    /\ Len(reported) <= 1
    /\ MAX_PAGES \in 0..MaxBudget

\* ------------------------------------------------------------------ properties
\* the Scope Filter of the spec, from the seeds
InScope(u) == u.scheme \in {"http", "https"} /\ u.netloc \in {s.netloc : s \in Seeds}

AtBoundary == pc \in {"loop", "done", "interrupted"}

Failed(o) == o \in {"timeout", "request_failed", "parse_error"}

C2_NoDuplicateVisits == NoDup(visitOrder) /\ NoDup(queue)

\* two pages were fetched, a page linked to a seed (which was queued or
\* visited already) and to a URL that is still queued
C2_Witness ==
    /\ pc = "loop" /\ Len(visitOrder) >= 2
    /\ found \cap Seeds # {}
    /\ found \cap Range(queue) # {}

\* C3: with dedup mode on, no two distinct visited URLs, seeds included, have
\* the same signature.
C3_SignatureDedup ==
    DEDUP_PARAM_SIG =>
        \A u, v \in visited :
            normalize_param_signature(u) = normalize_param_signature(v) => u = v

\* C4: URLs are visited in exactly the order they were enqueued: the visit
\* order is the enqueue order up to the URLs still queued, so a URL enqueued
\* later (a link of a later page) is never visited before one enqueued earlier.
C4_FIFO == enqOrder = visitOrder \o queue

\* seed A links to B and C, B links to D: A and B are visited in that order,
\* C waits at the head of the queue and D, queued after it, behind it
C4_Witness ==
    /\ Cardinality(Seeds) = 1 /\ pc = "loop"
    /\ Len(visitOrder) = 2 /\ Len(enqOrder) = 4 /\ Len(queue) = 2
    /\ visitOrder[2] \in found /\ queue[1] \in extracted /\ queue[2] \in found
    /\ enqOrder[3] = queue[1] /\ enqOrder[4] = queue[2]

\* C5 as stated: at every iteration boundary and at termination visited union
\* found holds every URL ever visited, ever extracted or ever queued.
C5_Original ==
    AtBoundary => (visited \cup extracted \cup Range(enqOrder)) \subseteq (visited \cup found)

\* C5 as amended: at every iteration boundary and at termination visited
\* union found (which is what the report shows) holds every URL ever visited,
\* every URL ever returned by an extraction and every URL ever queued other
\* than a seed that has not been visited.
C5_DiscoveredSet ==
    /\ (AtBoundary \/ pc = "crashed") =>
          /\ (visited \cup extracted) \subseteq (visited \cup found)
          /\ \A u \in Range(enqOrder) : u \in visited \cup found \/ (u \in Seeds /\ u \notin visited)
    /\ pc = "done" => reported = <<visited \cup found>>

\* the crawl ended on its budget with an extracted link never visited and a
\* seed never visited, and a page had linked to a URL that was queued already
C5_Witness ==
    /\ pc = "done" /\ found \ visited # {} /\ Seeds \ visited # {}
    /\ Seeds \cap found # {}

\* C6: every URL in visited, found or the queue is a seed or was returned by
\* an extraction that found it in scope; this holds when the page came from a
\* redirect to another host.
C6_ScopeInvariant ==
    \A u \in visited \cup found \cup Range(queue) \cup links :
        u \in Seeds \/ (u \in extracted /\ InScope(u))

\* a page reached through a redirect to a foreign host had a relative link,
\* which was dropped, and an in-scope link, which was kept
C6_Witness ==
    /\ pc = "push" /\ outcome = "ok" /\ links # {}
    /\ \E u \in discarded.scope : u.netloc = "c"

\* C7 as stated: no URL the Scope Filter rejects is ever queued or visited,
\* seeds included.
C7_Original == \A u \in Range(queue) \cup visited : InScope(u)

\* C7 as amended: no URL the Scope Filter rejects is ever queued or visited,
\* except the seeds, which load_urls pushes without asking the Scope Filter.
C7_NoRejectedUrlQueued ==
    \A i \in 1..Len(enqOrder) : ~InScope(enqOrder[i]) => enqOrder[i] \in Seeds

\* an ftp link to an allowed host was dropped from a page, while a seed the
\* filter rejects has been visited
C7_Witness ==
    /\ \E u \in discarded.scope : u.scheme = "ftp" /\ u.netloc \in allowed_domains
    /\ \E u \in visited : ~InScope(u)

\* C8: an iteration whose fetch or parse fails marks the popped URL visited
\* (one more visit), pushes nothing, leaves found and the seen signatures as
\* they were, never queues the URL again, and goes on to the delay and the
\* next loop test.
C8_FailureHandling ==
    /\ [][(pc = "loop" /\ visitOrder' # visitOrder /\ Failed(outcome')) =>
             /\ visited' = visited \cup {Head(queue)}
             /\ Cardinality(visited') = Cardinality(visited) + 1
             /\ queue' = Tail(queue)
             /\ Head(queue) \notin Range(queue')
             /\ found' = found
             /\ seen_param_signatures' = seen_param_signatures
             /\ links' = {}
             /\ pc' = "sleep"]_vars
    /\ [][(pc = "push" /\ Failed(outcome) /\ pc' = "loop") =>
             /\ queue' = queue
             /\ found' = found
             /\ visited' = visited
             /\ seen_param_signatures' = seen_param_signatures]_vars

\* the fetch of the second URL failed with an error page that has links,
\* while URLs are queued and links and signatures are on record
C8_Witness ==
    /\ pc = "push" /\ outcome = "request_failed" /\ Len(visitOrder) >= 2
    /\ queue # <<>> /\ found # {} /\ seen_param_signatures # {}
    /\ visitOrder[Len(visitOrder)].scheme = "http"

\* C9: the loop ends only with the queue empty or the budget used up, and a
\* single seed whose fetch times out leaves visited = {seed}, an empty queue
\* and nothing found.
C9_Termination ==
    /\ pc \in {"done", "crashed"} =>
          (queue = <<>> \/ Cardinality(visited) >= MAX_PAGES)
    /\ (pc = "done" /\ Cardinality(Seeds) = 1 /\ MAX_PAGES >= 1 /\ extracted = {}) =>
          (queue = <<>> /\ visited = Seeds /\ found = {})

\* every run of the program comes to an end
Terminates ==
    <>(pc \in {"exit1", "done", "crashed", "interrupted"})

\* C10: after an interruption between two iterations the sets collected so
\* far have been reported.
C10_Cancellation == pc = "interrupted" => reported = <<visited \cup found>>

\* the parameter names written in the query string of u
ParamNames(u) == {u.query[i][1] : i \in 1..Len(u.query)}

\* C11: normalize_param_signature gives the same result on every call for the
\* same URL, the same result for two URLs with the same path and the same set
\* of parameter names whatever the values and the order, and the path alone
\* for a URL without query parameters.
C11_SignaturePure ==
    \A i \in 1..Len(sig_out) :
        /\ sig_out[i] = sig_out[1]
        /\ (sig_in[1].path = sig_in[2].path /\ ParamNames(sig_in[1]) = ParamNames(sig_in[2]))
              => sig_out[i][1] = sig_out[i][2]
        /\ sig_in[1].query = <<>> => sig_out[i][1] = <<sig_in[1].path>>

\* what holds of the code: the signature is decided by the path and the set
\* of the names that carry a non-blank value
SignatureByNonBlankNames ==
    \A i \in 1..Len(sig_out) :
        /\ sig_out[i] = sig_out[1]
        /\ (sig_in[1].path = sig_in[2].path /\ QueryKeys(sig_in[1]) = QueryKeys(sig_in[2]))
              <=> sig_out[i][1] = sig_out[i][2]
        /\ QueryKeys(sig_in[1]) = {} => sig_out[i][1] = <<sig_in[1].path>>

ConfigError == args_list.kind = "missing" \/ Seeds = {}

\* C12: without a seed, or with the seed list file missing, the process exits
\* with status 1 before the loop, with nothing queued, visited or fetched; and
\* no error met on a URL ever ends the process.
C12_ConfigErrorsFatal ==
    /\ (ConfigError /\ pc # "load_urls") =>
          (pc = "exit1" /\ queue = <<>> /\ visited = {} /\ visitOrder = <<>>)
    /\ pc = "exit1" => ConfigError
    /\ pc # "crashed"

\* what holds of the code: the part of C12 about the configuration errors
ConfigErrorsExitBeforeLoop ==
    /\ (ConfigError /\ pc # "load_urls") =>
          (pc = "exit1" /\ queue = <<>> /\ visited = {} /\ visitOrder = <<>>)
    /\ pc = "exit1" => ConfigError

\* C13: a URL goes from unseen to queued to visited only: visited never
\* shrinks, a URL becomes visited only as the head of the queue and leaves
\* the queue with that, only a URL never queued before is queued, no visited
\* URL is ever in the queue, and so the URL at the head of the queue at the
\* loop test is never in visited.
C13_UrlStateMachine ==
    /\ [](/\ visited \cap Range(queue) = {}
          /\ (pc = "loop" /\ queue # <<>>) => Head(queue) \notin visited)
    /\ [][/\ visited \subseteq visited'
          /\ \A u \in visited' \ visited :
                queue # <<>> /\ u = Head(queue) /\ u \notin Range(queue')
          /\ \A u \in Range(queue') \ Range(queue) :
                u \notin visited /\ u \notin Range(enqOrder)]_vars

\* the URL visited first was linked to by a page fetched later, and was not
\* queued again
C13_Witness ==
    /\ pc = "loop" /\ Len(visitOrder) >= 2
    /\ visitOrder[1] \in found
    /\ queue # <<>>

\* C14: the seen signatures only grow; with dedup mode on, an extraction
\* records the signature of every in-scope link it meets, every URL it
\* returns has its signature on record, no two different URLs ever returned
\* have the same signature, and a link whose signature was on record before
\* the page was fetched is not returned.
C14_AdmitOnce ==
    /\ [](DEDUP_PARAM_SIG =>
            /\ \A u \in extracted \cup links :
                  normalize_param_signature(u) \in seen_param_signatures
            /\ \A u, v \in extracted \cup links :
                  normalize_param_signature(u) = normalize_param_signature(v) => u = v)
    /\ [][seen_param_signatures \subseteq seen_param_signatures']_vars
    /\ [][(DEDUP_PARAM_SIG /\ visitOrder' # visitOrder) =>
            /\ seen_param_signatures' = seen_param_signatures \cup
                  {normalize_param_signature(u) : u \in {w \in discarded'.resolved : InScope(w)}}
            /\ \A u \in discarded'.resolved :
                  normalize_param_signature(u) \in seen_param_signatures => u \notin links']_vars

\* with dedup mode on, a page had an in-scope link with the signature of a
\* different URL found on an earlier page, which was dropped, and another
\* link, which was kept
C14_Witness ==
    /\ DEDUP_PARAM_SIG /\ pc = "push" /\ links # {}
    /\ \E d \in discarded.sig, v \in found :
          d # v /\ normalize_param_signature(d) = normalize_param_signature(v)

\* C15: with dedup mode off, a crawl that ends with fewer than maxPages URLs
\* visited ends with the queue empty and with every seed and every in-scope
\* link of every fetched page visited (so every URL reachable from the seeds
\* is visited).
C15_Completeness ==
    (~DEDUP_PARAM_SIG /\ pc \in {"done", "crashed"} /\ Cardinality(visited) < MAX_PAGES) =>
        (queue = <<>> /\ Seeds \subseteq visited /\ extracted \subseteq visited)

\* what holds of the code: C15 for a crawl whose loop ends through its test
CompleteOnLoopExit ==
    (~DEDUP_PARAM_SIG /\ pc = "done" /\ Cardinality(visited) < MAX_PAGES) =>
        (queue = <<>> /\ Seeds \subseteq visited /\ extracted \subseteq visited)

\* C16: fetches are started one at a time, each only after the delay and the
\* pushes of the one before; every fetch attempt, failed or not, is followed
\* by exactly one time.sleep before the next pop and before its links are
\* pushed.
C16_SequentialDelay ==
    /\ [](/\ pc \in {"loop", "push", "done", "interrupted"} => delays = Len(visitOrder)
          /\ pc \in {"sleep", "crashed"} => delays = Len(visitOrder) - 1)
    /\ [][visitOrder' # visitOrder =>
            /\ Len(visitOrder') = Len(visitOrder) + 1
            /\ delays = Len(visitOrder) /\ links = {}
            /\ pc = "loop" /\ pc' \in {"sleep", "crashed"}]_vars
    /\ [][delays' # delays =>
            (delays' = delays + 1 /\ pc = "sleep" /\ queue' = queue /\ found' = found)]_vars
    /\ [][(pc # "load_urls" /\ (Len(queue') > Len(queue) \/ found' # found)) =>
            (pc = "push" /\ delays = Len(visitOrder))]_vars

\* the second fetch failed, the delay after it has been taken and the (empty)
\* set of links is about to be pushed
C16_Witness ==
    /\ pc = "push" /\ Failed(outcome) /\ links = {}
    /\ delays = 2 /\ Len(visitOrder) = 2 /\ queue # <<>>

\* C17: with dedup mode off, no signature is ever recorded and extract
\* returns exactly the resolved links that are in scope, dropping none for
\* its signature.
C17_DedupOffNoSignatures ==
    ~DEDUP_PARAM_SIG =>
        /\ seen_param_signatures = {}
        /\ discarded.sig = {}
        /\ pc \in {"sleep", "push"} =>
              /\ links = {u \in discarded.resolved : InScope(u)}
              /\ discarded.scope = {u \in discarded.resolved : ~InScope(u)}

\* with dedup mode off a page gave two different links of one signature,
\* which is also the signature of a URL found on an earlier page
C17_Witness ==
    /\ ~DEDUP_PARAM_SIG /\ pc = "push"
    /\ \E u, v \in links, w \in found :
          /\ u # v /\ w \notin links
          /\ normalize_param_signature(u) = normalize_param_signature(v)
          /\ normalize_param_signature(u) = normalize_param_signature(w)

\* C18: with dedup mode on, between two iterations the recorded signatures
\* are exactly the signatures of the URLs in found, and no two URLs in found
\* have the same signature, so found and the recorded signatures have the
\* same size.
C18_SignaturesMatchFound ==
    (DEDUP_PARAM_SIG /\ AtBoundary) =>
        /\ seen_param_signatures = {normalize_param_signature(u) : u \in found}
        /\ \A u, v \in found :
              normalize_param_signature(u) = normalize_param_signature(v) => u = v
        /\ Cardinality(found) = Cardinality(seen_param_signatures)

\* with dedup mode on, two pages have been crawled, found holds two URLs and
\* one of them is a seed (admitted by extract, queued by load_urls)
C18_Witness ==
    /\ DEDUP_PARAM_SIG /\ pc = "loop" /\ Len(visitOrder) >= 2
    /\ Cardinality(found) >= 2 /\ found \cap Seeds # {}

\* C19: with dedup mode on and two or more allowed hosts, no two links on
\* different hosts with the same path and the same set of parameter names are
\* both returned by extract, found, or queued from a page.
C19_HostNotInSignature ==
    (DEDUP_PARAM_SIG /\ Cardinality(allowed_domains) >= 2) =>
        \A u, v \in extracted \cup links \cup found \cup (Range(enqOrder) \ Seeds) :
            (u.netloc # v.netloc /\ u.path = v.path /\ ParamNames(u) = ParamNames(v))
                => u = v

\* what holds of the code: C19 with the signature the code computes in the
\* place of the path and the set of parameter names
HostBlindDedup ==
    (DEDUP_PARAM_SIG /\ Cardinality(allowed_domains) >= 2) =>
        \A u, v \in extracted \cup links \cup found \cup (Range(enqOrder) \ Seeds) :
            (u.netloc # v.netloc
             /\ normalize_param_signature(u) = normalize_param_signature(v)) => u = v
====
